---- MODULE Spec2Model ----
(***************************************************************************)
(* A model of the space-rocks game: the ControllerInput singleton          *)
(* (ControllerInput.py, controller_config.py), the entities (Background,   *)
(* Ship, Rock) and the game loop of main.py.                               *)
(*                                                                         *)
(* Units.  Axis values and the paddle result are in tenths (1.0 is 10).    *)
(* Ship velocities are in hundredths of a pixel per millisecond, so that   *)
(* _THRUSTER_SPEED_PPM = 0.01 is 1.  Positions are whole pixels.           *)
(***************************************************************************)
EXTENDS Integers, Sequences, FiniteSets, TLC

VARIABLES
    pygameInit,     \* pygame.get_init()
    table,          \* controller_config._button_mapping
    devices,        \* GUIDs of the attached joysticks, by device id (id + 1)
    ci_instance,    \* ControllerInput._instance: 0 is None, else the object
    ci_initialized, \* the instance's _is_initialized
    ci_joysticks,   \* the instance's _joysticks: device ids, in order
    enumCount,      \* how often pygame.joystick.get_count() enumerated
    warnings,       \* how many "pygame was not initialized" warnings printed
    elements,       \* main.py's elements list
    pc,             \* position of main.py
    quit_game,      \* main.py's quit_game flag
    show_controller_status, \* main.py's TAB toggle
    frames,         \* number of frames started
    trace,          \* what the current frame did, in order
    op,             \* the last operation that ran
    arg,            \* its input
    ret,            \* its result
    err             \* the exception it raised, or NoError

vars == <<pygameInit, table, devices, ci_instance, ci_initialized,
          ci_joysticks, enumCount, warnings, elements, pc,
          quit_game, show_controller_status, frames, trace, op, arg, ret, err>>

ciVars == <<ci_instance, ci_initialized, ci_joysticks, enumCount>>
mainVars == <<pc, quit_game, show_controller_status, frames, trace>>

----------------------------------------------------------------------------
(* Bounds *)

MaxJoysticks == 2       \* attached joysticks
MaxCalls == 3           \* constructions counted by enumCount and warnings
MaxElements == 3        \* entities a test scenario builds
NumRocks == 2           \* rocks main.py spawns (_NUM_STARTING_ROCKS there)
MaxFrames == 2          \* frames of the game loop

----------------------------------------------------------------------------
(* controller_config.py *)

\* The GUIDs of the table: the SideWinder and the PS4 entry.
SIDEWINDER == "0300e6365e0400003c00000001010000"
PS4 == "03008fe54c050000cc09000000016800"
\* A GUID no table has an entry for.
UNLISTED == "030000000000000000000000000000ff"

DeviceGuids == {SIDEWINDER, UNLISTED}

\* An entry of the table is the set of the keys it has (as paths), and the
\* values of its "axis" and "button" keys.
FieldPaths == {"paddle", "paddle.axis", "serve", "serve.button"}
Entry(fields, axis, button) ==
    [fields |-> fields, axis |-> axis, button |-> button]
FullEntry == Entry(FieldPaths, 0, 0)

\* _button_mapping as the file has it.
ButtonMapping ==
    [k \in {"default", SIDEWINDER, PS4} |-> FullEntry]

\* Tables an installation may have instead: one entry incomplete, one entry
\* mapped to another axis and button, one entry absent.
Incomplete ==
    { Entry({}, 0, 0), Entry({"paddle"}, 0, 0),
      Entry({"paddle", "paddle.axis"}, 0, 0),
      Entry({"paddle", "paddle.axis", "serve"}, 0, 0),
      Entry({"serve", "serve.button"}, 0, 0) }
Tables ==
    {ButtonMapping}
    \cup { [ButtonMapping EXCEPT ![k] = e] :
              k \in {"default", SIDEWINDER}, e \in Incomplete }
    \cup { [ButtonMapping EXCEPT ![k] = Entry(FieldPaths, 1, 1)] :
              k \in {"default", SIDEWINDER} }
    \cup { [k \in {"default", PS4} |-> FullEntry],
           [k \in {SIDEWINDER, PS4} |-> FullEntry] }

----------------------------------------------------------------------------
(* Exceptions *)

NoError == [type |-> "none", guid |-> "", known |-> FALSE, what |-> ""]
Raise(type, what) ==
    [type |-> type, guid |-> "", known |-> FALSE, what |-> what]
\* The RuntimeError of ControllerInput.__init__: its message starts by
\* naming the GUID and whether it has an entry, and ends by naming the key.
ConfigError(guid, known, what) ==
    [type |-> "RuntimeError", guid |-> guid, known |-> known, what |-> what]

----------------------------------------------------------------------------
(* ControllerInput.__init__ *)

\* Lines 68-103: the check of one joystick's entry.  (PaddleOnly: the
\* same without the two "serve" checks.)
ValidateMapping_PaddleOnly(tbl, guid) ==
    LET known_guid == guid \in DOMAIN tbl
    IN  IF ~known_guid /\ "default" \notin DOMAIN tbl
        THEN Raise("KeyError", "default")
        ELSE LET button_mapping ==
                     IF known_guid THEN tbl[guid] ELSE tbl["default"]
             IN  IF "paddle" \notin button_mapping.fields
                 THEN ConfigError(guid, known_guid, "paddle")
                 ELSE IF "paddle.axis" \notin button_mapping.fields
                 THEN ConfigError(guid, known_guid, "paddle.axis")
                 ELSE NoError
ValidateMapping(tbl, guid) ==
    LET known_guid == guid \in DOMAIN tbl
    IN  IF ~known_guid /\ "default" \notin DOMAIN tbl
        THEN Raise("KeyError", "default")
        ELSE LET button_mapping ==
                     IF known_guid THEN tbl[guid] ELSE tbl["default"]
             IN  IF "paddle" \notin button_mapping.fields
                 THEN ConfigError(guid, known_guid, "paddle")
                 ELSE IF "paddle.axis" \notin button_mapping.fields
                 THEN ConfigError(guid, known_guid, "paddle.axis")
                 ELSE IF "serve" \notin button_mapping.fields
                 THEN ConfigError(guid, known_guid, "serve")
                 ELSE IF "serve.button" \notin button_mapping.fields
                 THEN ConfigError(guid, known_guid, "serve.button")
                 ELSE NoError

\* Lines 49-103: the loop over the device ids, from id on; joysticks is
\* _joysticks so far.  A joystick is appended before its entry is checked.
\* (Unvalidated: every joystick appended, no entry looked at.)
Enumerate_Unvalidated(tbl, devs, id, joysticks) ==
    [joysticks |-> [i \in 1..Len(devs) |-> i], err |-> NoError]
RECURSIVE Enumerate(_, _, _, _)
Enumerate(tbl, devs, id, joysticks) ==
    IF id > Len(devs)
    THEN [joysticks |-> joysticks, err |-> NoError]
    ELSE LET appended == Append(joysticks, id)
             e == ValidateMapping(tbl, devs[id])
         IN  IF e # NoError
             THEN [joysticks |-> appended, err |-> e]
             ELSE Enumerate(tbl, devs, id + 1, appended)

Bump(n) == IF n < MaxCalls THEN n + 1 ELSE n

\* Line 35: whether __init__ does anything.  (Skipped: an __init__ that
\* runs on every construction.)
InitGuard_Skipped == TRUE
InitGuard == ~ci_initialized

\* Lines 41-44: the constructor's answer to pygame not being initialized is
\* a warning and a call of pygame.init().
WarnAndInit ==
    /\ pygameInit' = TRUE
    /\ warnings' = IF pygameInit THEN warnings ELSE Bump(warnings)

\* The exception ControllerInput() raises in the current state, or NoError.
ControllerInputError ==
    IF InitGuard THEN Enumerate(table, devices, 1, <<>>).err ELSE NoError

\* ControllerInput(): __new__ (lines 29-32) and then __init__ (34-105).
ControllerInputNew ==
    /\ ci_instance' = IF ci_instance = 0 THEN 1 ELSE ci_instance
    /\ IF InitGuard
       THEN LET r == Enumerate(table, devices, 1, <<>>)
            IN  /\ WarnAndInit
                /\ ci_joysticks' = r.joysticks
                /\ enumCount' = Bump(enumCount)
                /\ ci_initialized' = (r.err = NoError)
       ELSE UNCHANGED <<pygameInit, warnings, ci_joysticks, enumCount,
                        ci_initialized>>

----------------------------------------------------------------------------
(* ControllerInput.paddle and ControllerInput.serve *)

\* What the joysticks and the keyboard can show when they are read.
AxisIds == {0, 1}
ButtonIds == {0, 1}
AxisValues == {-10, 0, 6}
ButtonValues == {0, 1}
NoKeys == {}
Centred == [axes |-> [a \in AxisIds |-> 0], buttons |-> [b \in ButtonIds |-> 0]]

\* Lines 140-144 and 167-171: the entry a joystick's GUID resolves to.
Resolve(tbl, guid) == IF guid \in DOMAIN tbl THEN tbl[guid] ELSE tbl["default"]

\* Line 151.  (Unclamped: the sum as it is.)
Clamp_Unclamped(movement) == movement
Clamp(movement) ==
    LET lower == IF 10 < movement THEN 10 ELSE movement
    IN  IF -10 > lower THEN -10 ELSE lower

\* Lines 130-134: the keyboard's part.
KeyboardMovement(keys) ==
    (IF "K_LEFT" \in keys THEN -10 ELSE 0)
    + (IF "K_RIGHT" \in keys THEN 10 ELSE 0)

\* Line 145: what one joystick adds.
PaddleAxis(button_mapping, state) == state.axes[button_mapping.axis]

\* Lines 139-145: the loop over _joysticks, from its i-th element on.
RECURSIVE PaddleLoop(_, _, _, _, _, _)
PaddleLoop(tbl, devs, joysticks, joy, i, movement) ==
    IF i > Len(joysticks)
    THEN [ret |-> Clamp(movement), err |-> NoError]
    ELSE LET guid == devs[joysticks[i]]
         IN  IF guid \notin DOMAIN tbl /\ "default" \notin DOMAIN tbl
             THEN [ret |-> 0, err |-> Raise("KeyError", "default")]
             ELSE LET button_mapping == Resolve(tbl, guid)
                  IN  IF "paddle" \notin button_mapping.fields
                      THEN [ret |-> 0, err |-> Raise("KeyError", "paddle")]
                      ELSE IF "paddle.axis" \notin button_mapping.fields
                      THEN [ret |-> 0, err |-> Raise("KeyError", "axis")]
                      ELSE PaddleLoop(tbl, devs, joysticks, joy, i + 1,
                               movement
                               + PaddleAxis(button_mapping, joy[joysticks[i]]))

\* ControllerInput.paddle(): keys are the keys held, joy the joysticks' state.
paddle(tbl, devs, joysticks, keys, joy) ==
    PaddleLoop(tbl, devs, joysticks, joy, 1, KeyboardMovement(keys))

\* Line 172: whether one joystick's serve button counts as pressed
\* (abs(value) > 0.5, here with both sides doubled).  (Never: a joystick
\* button that does not count.)
Abs(n) == IF n < 0 THEN -n ELSE n
ServePressed_Never(button_mapping, state) == FALSE
ServePressed(button_mapping, state) ==
    2 * Abs(state.buttons[button_mapping.button]) > 1

\* Lines 166-175: the loop over _joysticks, from its i-th element on.
RECURSIVE ServeLoop(_, _, _, _, _)
ServeLoop(tbl, devs, joysticks, joy, i) ==
    IF i > Len(joysticks)
    THEN [ret |-> FALSE, err |-> NoError]
    ELSE LET guid == devs[joysticks[i]]
         IN  IF guid \notin DOMAIN tbl /\ "default" \notin DOMAIN tbl
             THEN [ret |-> FALSE, err |-> Raise("KeyError", "default")]
             ELSE LET button_mapping == Resolve(tbl, guid)
                  IN  IF "serve" \notin button_mapping.fields
                      THEN [ret |-> FALSE, err |-> Raise("KeyError", "serve")]
                      ELSE IF "serve.button" \notin button_mapping.fields
                      THEN [ret |-> FALSE, err |-> Raise("KeyError", "button")]
                      ELSE IF ServePressed(button_mapping, joy[joysticks[i]])
                      THEN [ret |-> TRUE, err |-> NoError]
                      ELSE ServeLoop(tbl, devs, joysticks, joy, i + 1)

\* ControllerInput.serve().
serve(tbl, devs, joysticks, keys, joy) ==
    IF "K_SPACE" \in keys
    THEN [ret |-> TRUE, err |-> NoError]
    ELSE ServeLoop(tbl, devs, joysticks, joy, 1)

----------------------------------------------------------------------------
(* The entities: Background.py, Rock.py, Ship.py *)

\* The image files, with the pixel sizes the model gives the pictures.
BACKGROUND_IMAGE_FILE == "./images/space.png"
SHIP_IMAGE_FILE == "./images/ship.png"
ROCK_IMAGE_FILES ==
    {"./images/rock-large.png", "./images/rock-medium.png",
     "./images/rock-small.png"}
ImageSize(file) ==
    CASE file = BACKGROUND_IMAGE_FILE -> [w |-> 800, h |-> 800]
      [] file = SHIP_IMAGE_FILE -> [w |-> 40, h |-> 40]
      [] file = "./images/rock-large.png" -> [w |-> 80, h |-> 80]
      [] file = "./images/rock-medium.png" -> [w |-> 40, h |-> 40]
      [] file = "./images/rock-small.png" -> [w |-> 20, h |-> 20]

\* _THRUSTER_SPEED_PPM, in hundredths of a pixel per millisecond.
THRUSTER_SPEED_PPM == 1

\* GameElement.__init__(image_file, collidable=True): the rect is the
\* picture's, at the origin, and the velocity is zero.
DefaultCollidable == TRUE
GameElement(kind, file, collidable) ==
    [kind |-> kind, collidable |-> collidable, x |-> 0, y |-> 0,
     w |-> ImageSize(file).w, h |-> ImageSize(file).h, vx |-> 0, vy |-> 0]

\* rect.center = (cx, cy)
SetCenter(e, cx, cy) ==
    [e EXCEPT !.x = cx - (e.w \div 2), !.y = cy - (e.h \div 2)]

\* Background.py line 41.
BackgroundCollidable == FALSE

\* What Background(screen) constructs (lines 41-54): scaling replaces the
\* image and leaves the rect alone.
BackgroundElement ==
    GameElement("Background", BACKGROUND_IMAGE_FILE, BackgroundCollidable)

\* What Rock(cx, cy) constructs (lines 51-54), file being random.choice's.
RockElement(cx, cy, file) ==
    SetCenter(GameElement("Rock", file, DefaultCollidable), cx, cy)

\* What Ship(cx, cy) constructs (lines 65-71).
ShipElement(cx, cy) ==
    [ox |-> 0, oy |-> -1] @@
    SetCenter(GameElement("Ship", SHIP_IMAGE_FILE, DefaultCollidable), cx, cy)

\* Ship.py line 51 and Rock.py line 44: the constructor's check.
\* (Unchecked: a constructor that goes on regardless.)
NotReady_Unchecked == FALSE
NotReady == ~pygameInit

PygameMissing(class) ==
    [type |-> "RuntimeError", guid |-> "", known |-> FALSE,
     what |-> "Pygame must be initialized before creating a " \o class]

\* Background(screen), appended to the elements (main.py lines 65-66).
NewBackground ==
    /\ WarnAndInit
    /\ elements' = Append(elements, BackgroundElement)
    /\ err' = NoError
    /\ UNCHANGED ciVars

\* Rock(cx, cy), appended to the elements (main.py lines 80-81).
NewRock(cx, cy, file) ==
    /\ IF NotReady
       THEN /\ err' = PygameMissing("Rock")
            /\ UNCHANGED elements
       ELSE /\ err' = NoError
            /\ elements' = Append(elements, RockElement(cx, cy, file))
    /\ UNCHANGED <<pygameInit, warnings, ciVars>>

\* Ship(cx, cy), appended to the elements (main.py lines 71-72).  The
\* constructor calls ControllerInput(), whose exception leaves it.
NewShip(cx, cy) ==
    IF NotReady
    THEN /\ err' = PygameMissing("Ship")
         /\ UNCHANGED <<pygameInit, warnings, ciVars, elements>>
    ELSE /\ ControllerInputNew
         /\ err' = ControllerInputError
         /\ elements' = IF ControllerInputError = NoError
                        THEN Append(elements, ShipElement(cx, cy))
                        ELSE elements

\* The methods the ControllerInput class defines (lines 29-177).
ControllerInputMethods ==
    {"__new__", "__init__", "paddle", "serve", "show_current_state"}
AttributeError(name) ==
    Raise("AttributeError",
          "'ControllerInput' object has no attribute '" \o name \o "'")

\* Ship.update(dt, screen, **kwargs): the exception it raises.  Line 114
\* looks thrust up on the ControllerInput, which has no such method, so
\* the lines after the check of screen change nothing.
\* (ThrustFirst: thrust looked up before screen is looked at.)
ShipUpdateError_ThrustFirst(screen) ==
    IF "thrust" \notin ControllerInputMethods
    THEN AttributeError("thrust")
    ELSE IF screen = "None"
    THEN Raise("ValueError", "A screen parameter MUST be supplied")
    ELSE NoError
ShipUpdateError(screen) ==
    IF screen = "None"
    THEN Raise("ValueError", "A screen parameter MUST be supplied")
    ELSE IF "thrust" \notin ControllerInputMethods
    THEN AttributeError("thrust")
    ELSE NoError

\* element.update(dt=dt, events=all_events, screen=screen): Background's
\* is pass, Rock has GameElement's, which does nothing, Ship has its own.
UpdateError(e, screen) ==
    IF e.kind = "Ship" THEN ShipUpdateError(screen) ELSE NoError

----------------------------------------------------------------------------
(* main.py lines 110-115: the collision pass *)

\* pygame's Rect.colliderect: the rects share area; touching edges do not.
Collide(a, b) ==
    /\ a.x < b.x + b.w /\ b.x < a.x + a.w
    /\ a.y < b.y + b.h /\ b.y < a.y + a.h

\* The indexes of a list of n elements, in order.
Indexes(n) == [i \in 1..n |-> i]

\* Line 111: the elements the pass goes through.
Collidables(elems) ==
    LET IsCollidable(i) == elems[i].collidable
    IN  SelectSeq(Indexes(Len(elems)), IsCollidable)

\* Lines 112-115 for one element: its collided_with calls, in order.
\* (Self: other_elements without its "e is not element".)
Step(name, who, other) == [step |-> name, who |-> who, other |-> other]
CollisionsOf_Self(elems, i) ==
    LET Hit(j) == elems[j].collidable /\ Collide(elems[i], elems[j])
        hits == SelectSeq(Indexes(Len(elems)), Hit)
    IN  [k \in DOMAIN hits |-> Step("collided_with", i, hits[k])]
CollisionsOf(elems, i) ==
    LET Hit(j) == j # i /\ elems[j].collidable /\ Collide(elems[i], elems[j])
        hits == SelectSeq(Indexes(Len(elems)), Hit)
    IN  [k \in DOMAIN hits |-> Step("collided_with", i, hits[k])]

RECURSIVE CollisionsFrom(_, _, _)
CollisionsFrom(elems, todo, k) ==
    IF k > Len(todo) THEN <<>>
    ELSE CollisionsOf(elems, todo[k]) \o CollisionsFrom(elems, todo, k + 1)

\* Lines 110-115: every collided_with call of one pass, in order.
CollisionPass(elems) == CollisionsFrom(elems, Collidables(elems), 1)

----------------------------------------------------------------------------
(* main.py lines 89-126: one frame *)

\* Lines 98-104: what the frame's events make of quit_game and of
\* show_controller_status, from the k-th event on.
RECURSIVE HandleEvents(_, _, _, _)
HandleEvents(events, k, quit, show) ==
    IF k > Len(events) THEN [quit_game |-> quit, show |-> show]
    ELSE HandleEvents(events, k + 1,
                      quit \/ events[k] = "QUIT",
                      IF events[k] = "KEYDOWN_TAB" THEN ~show ELSE show)

\* Lines 107-108: the updates from the i-th element on, until one raises.
RECURSIVE UpdatesFrom(_, _)
UpdatesFrom(elems, i) ==
    IF i > Len(elems) THEN [trace |-> <<>>, err |-> NoError]
    ELSE LET e == UpdateError(elems[i], "screen")
         IN  IF e # NoError
             THEN [trace |-> <<Step("update", i, 0)>>, err |-> e]
             ELSE LET rest == UpdatesFrom(elems, i + 1)
                  IN  [trace |-> <<Step("update", i, 0)>> \o rest.trace,
                       err |-> rest.err]

\* Lines 118-119.
Draws(elems) == [i \in 1..Len(elems) |-> Step("draw", i, 0)]

\* Lines 90-126: the frame's steps in order, the exception that ended it
\* (or NoError), and the two flags after it.
Frame(elems, events, quit, show) ==
    LET flags == HandleEvents(events, 1, quit, show)
        updates == UpdatesFrom(elems, 1)
        polled == <<Step("tick", 0, 0), Step("events", 0, 0)>>
    IN  IF updates.err # NoError
        THEN [trace |-> polled \o updates.trace, err |-> updates.err,
              quit_game |-> flags.quit_game, show |-> flags.show]
        ELSE [trace |-> polled \o updates.trace \o CollisionPass(elems)
                        \o Draws(elems)
                        \o (IF flags.show
                            THEN <<Step("show_current_state", 0, 0)>>
                            ELSE <<>>)
                        \o <<Step("display.update", 0, 0)>>,
              err |-> NoError,
              quit_game |-> flags.quit_game, show |-> flags.show]

----------------------------------------------------------------------------
(* The state before anything has run *)

NoArg == [keys |-> NoKeys, joy |-> <<>>]

Fresh ==
    /\ pygameInit = FALSE
    /\ ci_instance = 0
    /\ ci_initialized = FALSE
    /\ ci_joysticks = <<>>
    /\ enumCount = 0
    /\ warnings = 0
    /\ elements = <<>>
    /\ quit_game = FALSE
    /\ show_controller_status = FALSE
    /\ frames = 0
    /\ trace = <<>>
    /\ op = "none"
    /\ arg = NoArg
    /\ ret = 0
    /\ err = NoError

----------------------------------------------------------------------------
(* SpecInput: the ControllerInput class, called as a client may call it.   *)
(* The client initializes pygame, constructs the ControllerInput and has   *)
(* joysticks plugged in, in any order and any number of times, and then    *)
(* reads one signal.  A read changes nothing a later call could see, so    *)
(* the run ends with it.                                                   *)

Range(seq) == { seq[i] : i \in DOMAIN seq }

\* The joystick states a read can meet: the joysticks of _joysticks show
\* any of `shown`, the others are not read and are left centred.
JoyInputs(shown) ==
    { [i \in DOMAIN devices |->
          IF i \in Range(ci_joysticks) THEN f[i] ELSE Centred] :
      f \in [DOMAIN devices -> shown] }
AxesShown == { [Centred EXCEPT !.axes = a] : a \in [AxisIds -> AxisValues] }
ButtonsShown ==
    { [Centred EXCEPT !.buttons = b] : b \in [ButtonIds -> ButtonValues] }

InputInit ==
    /\ Fresh
    /\ pc = "unit"
    /\ table \in Tables
    /\ devices = <<>>

\* pygame.init()
InputPygameInit ==
    /\ pc = "unit"
    /\ ~pygameInit
    /\ pygameInit' = TRUE
    /\ op' = "pygame.init"
    /\ arg' = NoArg /\ ret' = 0 /\ err' = NoError
    /\ UNCHANGED <<table, devices, ciVars, warnings, elements, mainVars>>

\* A joystick is plugged in.
InputAttach ==
    /\ pc = "unit"
    /\ Len(devices) < MaxJoysticks
    /\ \E guid \in DeviceGuids : devices' = Append(devices, guid)
    /\ op' = "attach"
    /\ arg' = NoArg /\ ret' = 0 /\ err' = NoError
    /\ UNCHANGED <<pygameInit, table, ciVars, warnings, elements, mainVars>>

\* ControllerInput()
InputControllerInput ==
    /\ pc = "unit"
    /\ ControllerInputNew
    /\ op' = "ControllerInput"
    /\ arg' = NoArg
    /\ ret' = ci_instance'
    /\ err' = ControllerInputError
    /\ UNCHANGED <<table, devices, elements, mainVars>>

\* ControllerInput().paddle()
InputPaddle ==
    /\ pc = "unit"
    /\ ci_initialized
    /\ pc' = "read"
    /\ UNCHANGED <<quit_game, show_controller_status, frames, trace>>
    /\ \E keys \in SUBSET {"K_LEFT", "K_RIGHT"}, joy \in JoyInputs(AxesShown) :
          LET r == paddle(table, devices, ci_joysticks, keys, joy)
          IN  /\ op' = "paddle"
              /\ arg' = [keys |-> keys, joy |-> joy]
              /\ ret' = r.ret
              /\ err' = r.err
    /\ UNCHANGED <<pygameInit, table, devices, ciVars, warnings, elements>>

\* ControllerInput().serve()
InputServe ==
    /\ pc = "unit"
    /\ ci_initialized
    /\ pc' = "read"
    /\ UNCHANGED <<quit_game, show_controller_status, frames, trace>>
    /\ \E keys \in SUBSET {"K_SPACE"}, joy \in JoyInputs(ButtonsShown) :
          LET r == serve(table, devices, ci_joysticks, keys, joy)
          IN  /\ op' = "serve"
              /\ arg' = [keys |-> keys, joy |-> joy]
              /\ ret' = r.ret
              /\ err' = r.err
    /\ UNCHANGED <<pygameInit, table, devices, ciVars, warnings, elements>>

InputNext ==
    \/ InputPygameInit
    \/ InputAttach
    \/ InputControllerInput
    \/ InputPaddle
    \/ InputServe

SpecInput == InputInit /\ [][InputNext]_vars

----------------------------------------------------------------------------
(* Properties of ControllerInput, checked under SpecInput *)

\* What the joystick behind the n-th element of _joysticks showed at the
\* last read, and the entry of the table its GUID resolves to.
ShownBy(n) == arg.joy[ci_joysticks[n]]
EntryOf(n) == Resolve(table, devices[ci_joysticks[n]])

\* The sum of the mapped paddle axes of the first n joysticks.
RECURSIVE AxisSum(_)
AxisSum(n) ==
    IF n = 0 THEN 0 ELSE AxisSum(n - 1) + ShownBy(n).axes[EntryOf(n).axis]

RawPaddle ==
    (IF "K_RIGHT" \in arg.keys THEN 10 ELSE 0)
    - (IF "K_LEFT" \in arg.keys THEN 10 ELSE 0)
    + AxisSum(Len(ci_joysticks))

\* C2: paddle() returns the sum of -1.0 for the left arrow, +1.0 for the
\* right arrow and every joystick's mapped paddle axis (not inverted),
\* clamped to [-1, 1]; so it is within [-1, 1] whatever the sum is.
C2_PaddleIsClampedSum ==
    op = "paddle" =>
        /\ err = NoError
        /\ ret \in -10..10
        /\ RawPaddle > 10 => ret = 10
        /\ RawPaddle < -10 => ret = -10
        /\ RawPaddle \in -10..10 => ret = RawPaddle

\* Two joysticks and the right arrow push the sum over 1.0.
C2_Witness ==
    /\ op = "paddle"
    /\ Len(ci_joysticks) = 2
    /\ EntryOf(2).axis = 1
    /\ RawPaddle > 10
    /\ ret = 10

\* C4: serve() is true exactly when the space key is held or the mapped
\* serve button of some joystick of _joysticks is pressed.
C4_ServeIffAnySource ==
    op = "serve" =>
        /\ err = NoError
        /\ ret = ( \/ "K_SPACE" \in arg.keys
                   \/ \E n \in DOMAIN ci_joysticks :
                         ShownBy(n).buttons[EntryOf(n).button] # 0 )

\* Only the second joystick's serve button is pressed.
C4_Witness ==
    /\ op = "serve"
    /\ ret = TRUE
    /\ "K_SPACE" \notin arg.keys
    /\ Len(ci_joysticks) = 2
    /\ ShownBy(1).buttons[EntryOf(1).button] = 0

\* C7: once a construction has succeeded, a later ControllerInput() returns
\* the same instance, raises nothing, does not enumerate the joysticks
\* again and leaves _joysticks as it is.
C7_Reconstruction ==
    [][ (ci_initialized /\ op' = "ControllerInput") =>
           /\ ret' = ci_instance
           /\ err' = NoError
           /\ enumCount' = enumCount
           /\ ci_joysticks' = ci_joysticks
           /\ ci_initialized' ]_vars

\* A second construction after a joystick was plugged in: the new joystick
\* is attached and not in _joysticks.
C7_Witness ==
    /\ op = "ControllerInput"
    /\ ci_initialized
    /\ enumCount = 1
    /\ Len(devices) > Len(ci_joysticks)

----------------------------------------------------------------------------
(* SpecEntities: the entities, constructed and called as a client may,     *)
(* with one SideWinder attached and the table of controller_config.py.     *)
(* The client builds a list of elements as main.py does, may update its    *)
(* ships, and ends with the collision pass of main.py over the list.       *)

\* Where a scenario puts the centre of a ship or rock.
Centres == {<<0, 0>>, <<30, 0>>, <<0, 30>>}
\* What clock.tick(fps) returns.
Ticks == {16, 18}

EntInit ==
    /\ Fresh
    /\ pc = "unit"
    /\ table = ButtonMapping
    /\ devices = <<SIDEWINDER>>

\* pygame.init()
EntPygameInit ==
    /\ pc = "unit"
    /\ ~pygameInit
    /\ pygameInit' = TRUE
    /\ op' = "pygame.init"
    /\ arg' = NoArg /\ ret' = 0 /\ err' = NoError
    /\ UNCHANGED <<table, devices, ciVars, warnings, elements, mainVars>>

\* ControllerInput()
EntControllerInput ==
    /\ pc = "unit"
    /\ ControllerInputNew
    /\ op' = "ControllerInput"
    /\ arg' = NoArg
    /\ ret' = ci_instance'
    /\ err' = ControllerInputError
    /\ UNCHANGED <<table, devices, elements, mainVars>>

\* elements.append(Background(screen))
EntBackground ==
    /\ pc = "unit"
    /\ Len(elements) < MaxElements
    /\ NewBackground
    /\ op' = "Background"
    /\ arg' = NoArg /\ ret' = 0
    /\ UNCHANGED <<table, devices, mainVars>>

\* elements.append(Rock(cx, cy))
EntRock ==
    /\ pc = "unit"
    /\ Len(elements) < MaxElements
    /\ \E c \in Centres, file \in ROCK_IMAGE_FILES : NewRock(c[1], c[2], file)
    /\ op' = "Rock"
    /\ arg' = NoArg /\ ret' = 0
    /\ UNCHANGED <<table, devices, mainVars>>

\* elements.append(Ship(cx, cy))
EntShip ==
    /\ pc = "unit"
    /\ Len(elements) < MaxElements
    /\ \E c \in Centres : NewShip(c[1], c[2])
    /\ op' = "Ship"
    /\ arg' = NoArg /\ ret' = 0
    /\ UNCHANGED <<table, devices, mainVars>>

\* ship.update(dt, screen) or ship.update(dt), with keys held.
EntShipUpdate ==
    /\ pc = "unit"
    /\ \E i \in DOMAIN elements, dt \in Ticks, screen \in {"None", "screen"},
          keys \in SUBSET {"K_UP"} :
          /\ elements[i].kind = "Ship"
          /\ op' = "Ship.update"
          /\ arg' = [keys |-> keys, joy |-> <<Centred>>, who |-> i,
                     dt |-> dt, screen |-> screen, before |-> elements[i]]
          /\ err' = ShipUpdateError(screen)
    /\ ret' = 0
    /\ UNCHANGED <<pygameInit, table, devices, ciVars, warnings, elements,
                   mainVars>>

\* The collision pass over the elements.
EntCollisions ==
    /\ pc = "unit"
    /\ pc' = "read"
    /\ trace' = CollisionPass(elements)
    /\ op' = "collisions"
    /\ arg' = NoArg /\ ret' = 0 /\ err' = NoError
    /\ UNCHANGED <<pygameInit, table, devices, ciVars, warnings, elements,
                   quit_game, show_controller_status, frames>>

EntNext ==
    \/ EntPygameInit
    \/ EntControllerInput
    \/ EntBackground
    \/ EntRock
    \/ EntShip
    \/ EntShipUpdate
    \/ EntCollisions

SpecEntities == EntInit /\ [][EntNext]_vars

----------------------------------------------------------------------------
(* Properties of the entities, checked under SpecEntities *)

Min(a, b) == IF a < b THEN a ELSE b
Max(a, b) == IF a < b THEN b ELSE a

\* The bounding boxes of two elements share at least one pixel.
Overlap(a, b) ==
    /\ Max(a.x, b.x) < Min(a.x + a.w, b.x + b.w)
    /\ Max(a.y, b.y) < Min(a.y + a.h, b.y + b.h)

\* How many collided_with(elements[j]) calls elements[i] got in the pass.
Notified(i, j) ==
    Cardinality({ k \in DOMAIN trace : trace[k] = Step("collided_with", i, j) })

\* C1: in a collision pass, an entity that is not the Background gets
\* exactly one collided_with for every other such entity its bounding box
\* overlaps, and none for one it does not overlap; the Background neither
\* gets a call nor is the argument of one.
C1_CollisionNotifications ==
    op = "collisions" =>
        /\ \A k \in DOMAIN trace : trace[k].step = "collided_with"
        /\ \A i, j \in DOMAIN elements :
              Notified(i, j) =
                  IF /\ i # j
                     /\ elements[i].kind # "Background"
                     /\ elements[j].kind # "Background"
                     /\ Overlap(elements[i], elements[j])
                  THEN 1 ELSE 0

\* A Background, and a ship and a rock that overlap: two calls.
C1_Witness ==
    /\ op = "collisions"
    /\ Len(elements) = 3
    /\ \E i \in DOMAIN elements : elements[i].kind = "Background"
    /\ \E i \in DOMAIN elements : elements[i].kind = "Ship"
    /\ Len(trace) = 2

\* C3: the ControllerInput has a thrust() for Ship.update to call: an
\* update that is given a screen does not fail on looking thrust up.
C3_ThrustProvided ==
    (op = "Ship.update" /\ arg.screen # "None") =>
        err.type # "AttributeError"

Constructors == {"ControllerInput", "Background", "Ship", "Rock"}

\* C5 as claimed: a constructor called while pygame is not initialized
\* raises, and does not initialize pygame.
C5_ConstructionRaises ==
    [][ (~pygameInit /\ op' \in Constructors) =>
           (err'.type = "RuntimeError" /\ ~pygameInit') ]_vars

\* C5: Ship() and Rock() called while pygame is not initialized raise a
\* RuntimeError and change nothing; ControllerInput(), when the instance
\* is not marked initialized, and Background() then print a warning and
\* initialize pygame, and do not raise for it.
C5_ConstructionBeforeInit ==
    [][ /\ (~pygameInit /\ op' \in {"Ship", "Rock"}) =>
              /\ err' = PygameMissing(op')
              /\ ~pygameInit'
              /\ UNCHANGED <<elements, ciVars, warnings>>
        /\ ( /\ ~pygameInit
             /\ \/ op' = "Background"
                \/ op' = "ControllerInput" /\ ~ci_initialized ) =>
              /\ pygameInit'
              /\ warnings' = Bump(warnings)
              /\ err'.what # PygameMissing(op').what ]_vars

\* ControllerInput() has initialized pygame itself.
C5_Witness ==
    /\ op = "ControllerInput"
    /\ err = NoError
    /\ warnings = 1
    /\ pygameInit

\* C8: a Ship at rest that faces up and is updated with the up arrow held
\* has its velocity's y lowered by THRUSTER_SPEED_PPM and its y moved by
\* the new velocity times dt.
C8_ThrustIntegrated ==
    ( /\ op = "Ship.update"
      /\ arg.screen # "None"
      /\ arg.keys = {"K_UP"}
      /\ arg.before.vx = 0 /\ arg.before.vy = 0
      /\ arg.before.ox = 0 /\ arg.before.oy = -1 ) =>
        /\ elements[arg.who].vy = arg.before.vy - THRUSTER_SPEED_PPM
        /\ elements[arg.who].vx = 0
        /\ 100 * (elements[arg.who].y - arg.before.y)
               = elements[arg.who].vy * arg.dt

----------------------------------------------------------------------------
(* Spec: main.py, from pygame.init() on *)

\* The joysticks attached when the program starts.
DeviceLists ==
    UNION { [1..n -> DeviceGuids] : n \in 0..MaxJoysticks }
\* Where random.randint puts a rock's centre: on the ship or in a corner.
RockCentres == {<<400, 400>>, <<0, 0>>}
\* What pygame.event.get() returns.
EventLists ==
    {<<>>, <<"QUIT">>, <<"KEYDOWN_TAB">>, <<"KEYDOWN_TAB", "QUIT">>}

Rocks == { i \in DOMAIN elements : elements[i].kind = "Rock" }

Init ==
    /\ Fresh
    /\ pc = "pygame.init"
    /\ table \in Tables
    /\ devices \in DeviceLists

\* Line 33.
MainPygameInit ==
    /\ pc = "pygame.init"
    /\ pygameInit' = TRUE
    /\ pc' = "ControllerInput"
    /\ op' = "pygame.init"
    /\ arg' = NoArg /\ ret' = 0 /\ err' = NoError
    /\ UNCHANGED <<table, devices, ciVars, warnings, elements, quit_game,
                   show_controller_status, frames, trace>>

\* Lines 52-53.  An exception ends the program.
MainControllerInput ==
    /\ pc = "ControllerInput"
    /\ ControllerInputNew
    /\ err' = ControllerInputError
    /\ pc' = IF ControllerInputError = NoError THEN "Background" ELSE "aborted"
    /\ op' = "ControllerInput"
    /\ arg' = NoArg
    /\ ret' = ci_instance'
    /\ UNCHANGED <<table, devices, elements, quit_game,
                   show_controller_status, frames, trace>>

\* Lines 60-66.
MainBackground ==
    /\ pc = "Background"
    /\ NewBackground
    /\ pc' = "Ship"
    /\ op' = "Background"
    /\ arg' = NoArg /\ ret' = 0
    /\ UNCHANGED <<table, devices, quit_game, show_controller_status, frames,
                   trace>>

\* Lines 71-72: the ship, at the centre of the 800 x 800 screen.
MainShip ==
    /\ pc = "Ship"
    /\ NewShip(400, 400)
    /\ pc' = IF err' = NoError THEN "Rock" ELSE "aborted"
    /\ op' = "Ship"
    /\ arg' = NoArg /\ ret' = 0
    /\ UNCHANGED <<table, devices, quit_game, show_controller_status, frames,
                   trace>>

\* Lines 79-81: one pass of the loop that makes the rocks.
MainRock ==
    /\ pc = "Rock"
    /\ \E c \in RockCentres, file \in ROCK_IMAGE_FILES :
          NewRock(c[1], c[2], file)
    /\ pc' = IF err' # NoError THEN "aborted"
             ELSE IF Cardinality(Rocks) + 1 < NumRocks THEN "Rock"
             ELSE "loop"
    /\ op' = "Rock"
    /\ arg' = NoArg /\ ret' = 0
    /\ UNCHANGED <<table, devices, quit_game, show_controller_status, frames,
                   trace>>

\* Lines 89-131: one pass of the game loop, with what clock.tick and
\* pygame.event.get return and the keys held; an exception ends the
\* program, and a pass that leaves quit_game set is followed by the
\* pygame.quit() of line 131.
MainFrame ==
    /\ pc = "loop"
    /\ ~quit_game
    /\ frames < MaxFrames
    /\ \E dt \in Ticks, events \in EventLists, keys \in SUBSET {"K_UP"} :
          LET r == Frame(elements, events, quit_game, show_controller_status)
          IN  /\ trace' = r.trace
              /\ err' = r.err
              /\ quit_game' = r.quit_game
              /\ show_controller_status' = r.show
              /\ pc' = IF r.err # NoError THEN "aborted"
                       ELSE IF r.quit_game THEN "done"
                       ELSE "loop"
              /\ pygameInit' = IF r.err = NoError /\ r.quit_game
                               THEN FALSE ELSE pygameInit
              /\ arg' = [keys |-> keys, joy |-> <<>>, events |-> events,
                         dt |-> dt, before |-> elements]
    /\ frames' = frames + 1
    /\ op' = "frame"
    /\ ret' = 0
    /\ UNCHANGED <<table, devices, ciVars, warnings, elements>>

Next ==
    \/ MainPygameInit
    \/ MainControllerInput
    \/ MainBackground
    \/ MainShip
    \/ MainRock
    \/ MainFrame

Spec == Init /\ [][Next]_vars

----------------------------------------------------------------------------
(* Properties of the program, checked under Spec *)

\* The keys __init__ requires of an entry, in the order it asks for them.
Required == <<"paddle", "paddle.axis", "serve", "serve.button">>

\* The attached joysticks whose entry lacks a required key.
Deficient ==
    { i \in DOMAIN devices :
         \E k \in DOMAIN Required :
            Required[k] \notin Resolve(table, devices[i]).fields }
FirstDeficient == CHOOSE i \in Deficient : \A j \in Deficient : i <= j
FirstMissing(entry) ==
    Required[CHOOSE k \in DOMAIN Required :
                /\ Required[k] \notin entry.fields
                /\ \A m \in 1..(k - 1) : Required[m] \in entry.fields]

\* C6: when the table has a "default" entry and the entry some attached
\* joystick resolves to lacks a required key, ControllerInput() raises a
\* RuntimeError that names the GUID of the first such joystick, whether
\* that GUID has an entry of its own, and the first key missing; the
\* program ends there, with no element made and no frame run.
C6_ConfigErrorAbortsStartup ==
    ( /\ pc \notin {"pygame.init", "ControllerInput"}
      /\ "default" \in DOMAIN table
      /\ Deficient # {} ) =>
        LET guid == devices[FirstDeficient]
        IN  /\ pc = "aborted"
            /\ op = "ControllerInput"
            /\ err = ConfigError(guid, guid \in DOMAIN table,
                                 FirstMissing(Resolve(table, guid)))
            /\ ~ci_initialized
            /\ elements = <<>>
            /\ frames = 0

\* The second joystick falls back to a "default" entry without a button.
C6_Witness ==
    /\ pc = "aborted"
    /\ Len(devices) = 2
    /\ devices[1] = SIDEWINDER
    /\ err = ConfigError(UNLISTED, FALSE, "serve.button")

\* The frame's steps are all there, in the order of the loop's body.
Position(k) ==
    CASE trace[k].step \in {"tick", "events"} -> 1
      [] trace[k].step = "update" -> 2
      [] trace[k].step = "collided_with" -> 3
      [] trace[k].step \in {"draw", "show_current_state"} -> 4
      [] trace[k].step = "display.update" -> 5
StepsOf(name) ==
    SelectSeq(trace, LAMBDA t : t.step = name)

\* C9: the first frame, with no event, no key held and dt = 16, runs to
\* its end, leaves the ship where and as it was, and calls no
\* collided_with when no two bounding boxes overlap.
C9_QuietFrame ==
    ( /\ op = "frame" /\ frames = 1
      /\ arg.events = <<>> /\ arg.keys = {} /\ arg.dt = 16 ) =>
        /\ err = NoError
        /\ pc = "loop"
        /\ trace[Len(trace)].step = "display.update"
        /\ elements = arg.before
        /\ ( \A i, j \in DOMAIN elements :
                (i # j /\ elements[i].collidable /\ elements[j].collidable)
                   => ~Overlap(elements[i], elements[j]) )
           => StepsOf("collided_with") = <<>>

\* C10: a frame polls, then updates every element in list order, then
\* makes every collided_with call, then draws every element in list order,
\* then presents.
C10_PhasesInOrder ==
    op = "frame" =>
        /\ \A k \in 1..(Len(trace) - 1) : Position(k) <= Position(k + 1)
        /\ trace[1].step = "tick"
        /\ StepsOf("update")
              = [i \in 1..Len(elements) |-> Step("update", i, 0)]
        /\ \A i, j \in DOMAIN elements :
              ( /\ i # j /\ elements[i].collidable /\ elements[j].collidable
                /\ Overlap(elements[i], elements[j]) )
                 => Notified(i, j) = 1
        /\ StepsOf("draw") = [i \in 1..Len(elements) |-> Step("draw", i, 0)]
        /\ trace[Len(trace)].step = "display.update"

\* C11: a frame whose events hold a QUIT sets quit_game, still runs to its
\* display.update, and is the last: the loop ends and pygame.quit()
\* releases the display.
C11_QuitEndsAfterFrame ==
    (op = "frame" /\ \E k \in DOMAIN arg.events : arg.events[k] = "QUIT") =>
        /\ quit_game
        /\ err = NoError
        /\ trace[Len(trace)].step = "display.update"
        /\ pc = "done"
        /\ ~pygameInit

----------------------------------------------------------------------------
(* Further properties of the entities, checked under SpecEntities *)

\* C12: Ship.update called without a screen raises its ValueError, not an
\* error of reading the thrust, and leaves the ship's velocity, position
\* and orientation as they were.
C12_UpdateWithoutScreen ==
    (op = "Ship.update" /\ arg.screen = "None") =>
        /\ err.type = "ValueError"
        /\ elements[arg.who] = arg.before

\* A ship updated without a screen while the up arrow is held.
C12_Witness ==
    /\ op = "Ship.update"
    /\ arg.screen = "None"
    /\ arg.keys = {"K_UP"}
    /\ err.type = "ValueError"

----------------------------------------------------------------------------
(* Further properties of ControllerInput, checked under SpecInput *)

\* Every joystick of _joysticks resolves to an entry with all the keys
\* paddle() and serve() read.
MappingsComplete ==
    \A n \in DOMAIN ci_joysticks :
       LET guid == devices[ci_joysticks[n]]
       IN  /\ guid \in DOMAIN table \/ "default" \in DOMAIN table
           /\ {"paddle", "paddle.axis", "serve", "serve.button"}
                 \subseteq Resolve(table, guid).fields

\* C13: the instance is marked initialized only when every joystick of
\* _joysticks resolves to a complete entry, so paddle() and serve() never
\* fail on a missing key; a construction that raised leaves the instance
\* in place and unmarked, and the next construction enumerates again.
C13_ValidatedBeforeMarked ==
    /\ [](ci_initialized => MappingsComplete)
    /\ [](op \in {"paddle", "serve"} => err = NoError)
    /\ []((op = "ControllerInput" /\ err # NoError) =>
             (ci_instance # 0 /\ ~ci_initialized))
    /\ [][ (ci_instance # 0 /\ ~ci_initialized /\ op' = "ControllerInput") =>
              /\ enumCount' = Bump(enumCount)
              /\ ci_joysticks' = Enumerate(table, devices, 1, <<>>).joysticks
              /\ err' = Enumerate(table, devices, 1, <<>>).err ]_vars

\* A second construction after one that raised for the second joystick:
\* both enumerated, and the instance is there and unmarked.
C13_Witness ==
    /\ op = "ControllerInput"
    /\ err.type = "RuntimeError"
    /\ enumCount = 2
    /\ Len(ci_joysticks) = 2
    /\ ci_instance # 0
    /\ ~ci_initialized

====
